---- MODULE Spec2Model ----
(***************************************************************************)
(* A model of the columnar DataTable prototypes of dereckmezquita/datatable *)
(*   dev/scratch/src/DataTable/DT_col5.ts  (copy-returning query)           *)
(*   dev/scratch/src/DataTable/DT_col4.ts  (in-place assigning query)       *)
(* JavaScript values are tagged records, arrays live in a heap so that      *)
(* aliasing between tables is observable, and the callbacks handed to query *)
(* are drawn from the functions the README and the scratch scripts use.     *)
(* Later sections model base/seq.ts, the CSV reader and writer of          *)
(* fread-fwrite, and the operations the README plans (melt, dcast, joins).  *)
(***************************************************************************)
EXTENDS Integers, Sequences, FiniteSets, TLC

VARIABLES tab, heap, last

vars == <<tab, heap, last>>

-----------------------------------------------------------------------------
(* Bounds of the model                                                      *)

\* largest number of rows of a table: the constructor is handed 1..MaxRows
\* rows and addRow / setRow stops growing a table at MaxRows
MaxRows == 2

\* numerals 0..MaxNum are the numeric strings the model can tell apart
MaxNum == 30

\* largest number of rows of the tables that are only reordered
MaxOrderRows == 3

\* largest number of rows one addRows call is handed
MaxAppend == 2

\* bits of the significand of a number: stands for the 53 bits of a double,
\* so that 2^MantissaBits stands for 2^53, the first integer whose successor
\* is not a number
MantissaBits == 4

\* iterations of the loop of seq after which the model stops following it
MaxSeqLen == 12

\* largest length of the array handed to seq as along_with
MaxAlong == 3

\* largest number of lines of a file read
MaxLines == 3

-----------------------------------------------------------------------------
(* JavaScript values                                                        *)

Num(n) == [t |-> "number", n |-> n, s |-> ""]

Str(s) == [t |-> "string", n |-> 0, s |-> s]

Undef == [t |-> "undefined", n |-> 0, s |-> ""]

NaN == [t |-> "number", n |-> 0, s |-> "NaN"]

Null == [t |-> "null", n |-> 0, s |-> ""]

Digits == <<"0", "1", "2", "3", "4", "5", "6", "7", "8", "9">>

\* Number::toString for the non-negative integers of the model
RECURSIVE NumStr(_)
NumStr(n) ==
    IF n < 10 THEN Digits[n + 1]
    ELSE NumStr(n \div 10) \o Digits[(n % 10) + 1]

\* the element conversion of Array.prototype.join: undefined gives ""
JoinStr(v) ==
    CASE v.t = "number" -> NumStr(v.n)
      [] v.t = "string" -> v.s
      [] OTHER -> ""

\* keys.map(...).join('|')
RECURSIVE JoinBar(_)
JoinBar(vs) ==
    IF vs = <<>> THEN ""
    ELSE IF Len(vs) = 1 THEN JoinStr(vs[1])
    ELSE JoinStr(vs[1]) \o "|" \o JoinBar(Tail(vs))

\* a string that is the canonical numeral of an integer: such a property key
\* is an "array index" key of an ordinary object
Numerals == [k \in 0..MaxNum |-> NumStr(k)]

NumeralSet == {Numerals[k] : k \in 0..MaxNum}

IsIndexStr(s) == s \in NumeralSet

IndexOfStr(s) == CHOOSE k \in 0..MaxNum : Numerals[k] = s

\* ToNumber gives NaN for undefined and for a string that is no numeral,
\* and 0 for null
IsNumeric(v) ==
    \/ v.t = "number" /\ v.s = ""
    \/ v.t = "null"
    \/ v.t = "string" /\ (v.s = "" \/ IsIndexStr(v.s))

NumVal(v) ==
    IF v.t = "number" THEN v.n
    ELSE IF v.s = "" THEN 0 ELSE IndexOfStr(v.s)

\* the strings of the model in ascending order of their UTF-16 code units
StrOrder == <<"", "25", "Senior", "Young", "a", "b">>

StrRank(s) == CHOOSE i \in 1..Len(StrOrder) : StrOrder[i] = s

\* the < operator (abstract relational comparison)
JsLt(a, b) ==
    IF a.t = "string" /\ b.t = "string" THEN StrRank(a.s) < StrRank(b.s)
    ELSE IsNumeric(a) /\ IsNumeric(b) /\ NumVal(a) < NumVal(b)

\* the > operator
JsGt(a, b) == JsLt(b, a)

\* the >= operator: false when either side is NaN
JsGe(a, b) ==
    IF a.t = "string" /\ b.t = "string" THEN ~ JsLt(a, b)
    ELSE IsNumeric(a) /\ IsNumeric(b) /\ NumVal(a) >= NumVal(b)

\* arr[i] for a 0-based position: undefined outside the array
At(arr, i) == IF i >= 0 /\ i < Len(arr) THEN arr[i + 1] ELSE Undef

\* row[column] for a record given as a function on its own property names
Get(row, c) == IF c \in DOMAIN row THEN row[c] ELSE Undef

-----------------------------------------------------------------------------
(* Tables and the heap of column arrays                                     *)

\* table 1 is the table the caller constructed (DT), table 2 is the table
\* the latest query returned when that is a new object
TableIds == {1, 2}

BaseCols == <<"age", "name">>

AssignCols == {"ageGroup", "n"}

ColNames == {"age", "name"} \cup AssignCols

\* the address of a column array: arrays are allocated per table and name
Addr == TableIds \X ColNames

NoTable == [columns |-> <<>>, data |-> <<>>, rowCount |-> -1, keys |-> {}]

Ages == {Num(25), Num(30), Str("25")}

Names == {Str("a"), Str("b")}

\* the records handed to the constructor and to addRow / setRow
Records == {[c \in {"age", "name"} |-> IF c = "age" THEN a ELSE n] :
                a \in Ages, n \in Names}

\* the records used on the in-place assigning table of DT_col4: the
\* callbacks of its calls read the age column only
Records4 == {r \in Records : r["name"] = Str("a") /\ r["age"].t = "number"}

Range(f) == {f[x] : x \in DOMAIN f}

\* 0, 1, ..., n-1  (Array.from({ length: n }, (_, i) => i))
Iota(n) == [i \in 1..n |-> i - 1]

\* the array behind column c of table T
Col(h, T, c) == h[T.data[c]]

\* getRow(index): row[column] = this._data[column][index] over _columns
GetRow(h, T, i) ==
    [c \in Range(T.columns) |-> At(Col(h, T, c), i)]

\* initialiseFromRows: the columns are the keys of the first record, each
\* column array is data.map(row => row[column])
RowsColumns(rows) == SelectSeq(BaseCols, LAMBDA c : c \in DOMAIN rows[1])

RowsData(rows, c) == [k \in 1..Len(rows) |-> Get(rows[k], c)]

\* a table that takes a column of the receiver by reference where the
\* receiver has one of that name
FromColumnsByReference(id, keyOrder, data) ==
    [columns |-> keyOrder,
     data |-> [c \in Range(keyOrder) |->
                 IF c \in Range(BaseCols) THEN <<1, c>> ELSE <<id, c>>],
     rowCount |-> Len(data[keyOrder[1]]),
     keys |-> {}]

\* initialiseFromColumns: the table adopts the object it is handed, its
\* columns are Object.keys(data) and its row count is the length of the
\* first column
FromColumns(id, keyOrder, data) ==
    [columns |-> keyOrder,
     data |-> [c \in Range(keyOrder) |-> <<id, c>>],
     rowCount |-> Len(data[keyOrder[1]]),
     keys |-> {}]

\* the heap after the arrays of a new table id have been stored
Store(h, id, keyOrder, data) ==
    [a \in Addr |->
        IF a[1] = id
        THEN IF a[2] \in Range(keyOrder) THEN data[a[2]] ELSE <<>>
        ELSE h[a]]

NoQuery ==
    [filter |-> "none", hasSelect |-> FALSE, select |-> <<>>,
     assign |-> <<>>, by |-> <<>>]

\* what the latest call was, how it ended and which callbacks it invoked
Last(op, target, q, threw, ret, calls) ==
    [op |-> op, target |-> target, q |-> q, threw |-> threw, ret |-> ret,
     calls |-> calls]

\* new DataTable(rows) for 1..max rows drawn from recs
ConstructedUpTo(recs, max) ==
    \E k \in 1..max : \E rows \in [1..k -> recs] :
        /\ tab = [t \in TableIds |->
                    IF t = 1
                    THEN [columns |-> RowsColumns(rows),
                          data |-> [c \in Range(RowsColumns(rows)) |-> <<1, c>>],
                          rowCount |-> Len(rows),
                          keys |-> {}]
                    ELSE NoTable]
        /\ heap = [a \in Addr |->
                    IF a[1] = 1 /\ a[2] \in Range(RowsColumns(rows))
                    THEN RowsData(rows, a[2]) ELSE <<>>]
        /\ last = Last("new", 1, NoQuery, FALSE, 1, <<>>)

Constructed(recs) == ConstructedUpTo(recs, MaxRows)

Init == Constructed(Records)

Init4 == Constructed(Records4)

Live(t) == tab[t].rowCount >= 0

\* The call sequences modelled: the caller holds at most one query result.
\* Right after a query it either mutates one of the two tables once or
\* drops the result; it queries again after the drop.
Idle == tab[2] = NoTable /\ last.op # "query"

Callable(t) == Live(t) /\ (Idle \/ last.op = "query")

-----------------------------------------------------------------------------
(* addRow / setRow, setkey                                                  *)

\* the record's values put in front of the columns (unshift for push)
PushFront(h, T, row) ==
    [a \in Addr |->
        IF a[2] \in Range(T.columns) /\ T.data[a[2]] = a
        THEN <<Get(row, a[2])>> \o h[a]
        ELSE h[a]]

\* for (const column of this._columns) this._data[column].push(row[column]);
\* this._rowCount++
Push(h, T, row) ==
    [a \in Addr |->
        IF a[2] \in Range(T.columns) /\ T.data[a[2]] = a
        THEN Append(h[a], Get(row, a[2]))
        ELSE h[a]]

AddRow(t, row) ==
    /\ Callable(t)
    /\ tab[t].rowCount < MaxRows
    /\ heap' = Push(heap, tab[t], row)
    /\ tab' = [tab EXCEPT ![t].rowCount = @ + 1]
    /\ last' = Last("addRow", t, NoQuery, FALSE, 0, <<>>)

\* this._keys = new Set(Array.isArray(key) ? key : [key])
SetKey(t, key) ==
    /\ Callable(t)
    /\ tab' = [tab EXCEPT ![t].keys = Range(key)]
    /\ heap' = heap
    /\ last' = Last("setkey", t, NoQuery, FALSE, 0, <<>>)

-----------------------------------------------------------------------------
(* setorder                                                                 *)

\* the comparator handed to Array.prototype.sort
RECURSIVE Cmp(_, _, _, _, _)
Cmp(h, T, cols, a, b) ==
    IF cols = <<>> THEN 0
    ELSE IF JsLt(At(Col(h, T, cols[1]), a), At(Col(h, T, cols[1]), b)) THEN -1
    ELSE IF JsGt(At(Col(h, T, cols[1]), a), At(Col(h, T, cols[1]), b)) THEN 1
    ELSE Cmp(h, T, Tail(cols), a, b)

\* the comparator's answers for every pair of positions
CmpTable(h, T, cols) ==
    [a \in 0..(T.rowCount - 1) |->
        [b \in 0..(T.rowCount - 1) |-> Cmp(h, T, cols, a, b)]]

\* a comparator is consistent when it is a strict weak order on the positions
Consistent(C) ==
    /\ \A a, b \in DOMAIN C : C[a][b] = 0 - C[b][a]
    /\ \A a, b, c \in DOMAIN C : C[a][b] < 0 /\ C[b][c] < 0 => C[a][c] < 0
    /\ \A a, b, c \in DOMAIN C : C[a][b] = 0 /\ C[b][c] = 0 => C[a][c] = 0

Perms(n) ==
    {p \in [1..n -> 0..(n - 1)] : \A i, j \in 1..n : i # j => p[i] # p[j]}

\* the orders Array.prototype.sort can leave n positions in
Orders == [n \in 0..MaxOrderRows |-> Perms(n)]

\* Array.prototype.sort is stable; with an inconsistent comparator the order
\* is implementation-defined, so every permutation is a possible outcome
SortedBy(C, n) ==
    IF Consistent(C)
    THEN {p \in Orders[n] :
            \A i, j \in 1..n : i < j =>
                \/ C[p[i]][p[j]] < 0
                \/ C[p[i]][p[j]] = 0 /\ p[i] < p[j]}
    ELSE Orders[n]

SortedIndices(h, T, cols) == SortedBy(CmpTable(h, T, cols), T.rowCount)

\* a setorder that reorders the first column only
ReorderedFirstColumn(h, t, T, p) ==
    [a \in Addr |->
        IF a[1] = t /\ T.columns # <<>> /\ a[2] = T.columns[1]
        THEN [k \in 1..Len(p) |-> At(Col(h, T, a[2]), p[k])]
        ELSE h[a]]

\* this._data[col] = sortedIndices.map((i) => this._data[col][i]), a new
\* array for every column of _columns
Reordered(h, t, T, p) ==
    [a \in Addr |->
        IF a[1] = t /\ a[2] \in Range(T.columns)
        THEN [k \in 1..Len(p) |-> At(Col(h, T, a[2]), p[k])]
        ELSE h[a]]

Rebound(t, T) ==
    [T EXCEPT !.data = [c \in DOMAIN T.data |->
                          IF c \in Range(T.columns) THEN <<t, c>> ELSE T.data[c]]]

\* the comparator reads this._data[col] for the listed columns: the calls
\* modelled are those that name columns the table has
SetOrder(t, cols) ==
    /\ Callable(t)
    /\ Range(cols) \subseteq DOMAIN tab[t].data
    /\ \E sortedIndices \in {SortedIndices(heap, tab[t], cols)} :
       \E p \in sortedIndices :
        /\ heap' = Reordered(heap, t, tab[t], p)
        /\ tab' = [tab EXCEPT ![t] = Rebound(t, tab[t])]
    /\ last' = Last("setorder", t, NoQuery, FALSE, 0, <<>>)

-----------------------------------------------------------------------------
(* The callbacks handed to query                                            *)

\* undefined (no filter), r => r.age >= 30, row => row.ageGroup === 'Young'
Filters == {"none", "ageGE30", "isYoung"}

FilterFn(f, row) ==
    CASE f = "ageGE30" -> JsGe(Get(row, "age"), Num(30))
      [] f = "isYoung" -> Get(row, "ageGroup") = Str("Young")
      [] OTHER -> TRUE

\* ageGroup: row => row.age < 30 ? 'Young' : 'Senior'
\* rowNum:   (_, i) => i + 1     (part of the callback catalogue; the calls
\*           enumerated below do not use it)
\* count:    group => group.length
\* minAge:   group => Math.min(...group.map(row => row.age))
FnNames == {"ageGroup", "rowNum", "count", "minAge"}

\* the first argument of a callback: one row object, or an array of rows
RowArg(row) == [kind |-> "row", rows |-> <<row>>]

GroupArg(rows) == [kind |-> "group", rows |-> rows]

\* Math.min over the numbers of a non-empty list, NaN when one is NaN
MathMin(vs) ==
    IF \E k \in 1..Len(vs) : ~ IsNumeric(vs[k]) THEN NaN
    ELSE Num(CHOOSE m \in {NumVal(vs[k]) : k \in 1..Len(vs)} :
                \A k \in 1..Len(vs) : m <= NumVal(vs[k]))

\* fn(arg, i): what the call returns, or that it throws.  A row object has
\* no map method and no length property; an array has no age property.
Apply(fn, arg, i) ==
    CASE fn = "ageGroup" ->
            [threw |-> FALSE,
             v |-> IF arg.kind = "row" /\ JsLt(Get(arg.rows[1], "age"), Num(30))
                   THEN Str("Young") ELSE Str("Senior")]
      [] fn = "rowNum" -> [threw |-> FALSE, v |-> Num(i + 1)]
      [] fn = "count" ->
            [threw |-> FALSE,
             v |-> IF arg.kind = "group" THEN Num(Len(arg.rows))
                   ELSE Get(arg.rows[1], "length")]
      [] OTHER ->
            IF arg.kind = "group"
            THEN [threw |-> FALSE,
                  v |-> MathMin([k \in 1..Len(arg.rows) |-> Get(arg.rows[k], "age")])]
            ELSE [threw |-> TRUE, v |-> Undef]

\* the columns of its row argument that a callback reads
Reads(fn) == IF fn \in {"ageGroup", "minAge"} THEN {"age"} ELSE {}

\* one entry of the call log: which assign key's function was called and
\* with which rows of the receiver (0-based positions)
Call(key, kind, pos) == [key |-> key, kind |-> kind, pos |-> pos]

\* the arguments of query(filterFn, { select, assign }, { by })
AssignEntry(key, fn) == [key |-> key, fn |-> fn]

Assigns ==
    {<<>>,
     <<AssignEntry("ageGroup", "ageGroup")>>,
     <<AssignEntry("n", "count")>>,
     <<AssignEntry("ageGroup", "ageGroup"), AssignEntry("n", "minAge")>>}

Selects ==
    {[has |-> FALSE, cols |-> <<>>],
     [has |-> TRUE, cols |-> <<"name", "age">>]}

Bys == {<<>>, <<"age">>, <<"ageGroup">>, <<"name", "age">>}

QueryArgs ==
    {[filter |-> f, hasSelect |-> s.has, select |-> s.cols, assign |-> a, by |-> b] :
        f \in Filters, s \in Selects, a \in Assigns, b \in Bys}

\* a query that forgets its filter
IndicesUnfiltered(h, T, f) == Iota(T.rowCount)

\* indices.filter((i) => filterFn(this.getRow(i)))
Indices(h, T, f) ==
    SelectSeq(Iota(T.rowCount), LAMBDA i : FilterFn(f, GetRow(h, T, i)))

-----------------------------------------------------------------------------
(* groupBy                                                                  *)

\* const groups: { [key: string]: number[] } = {}; the object keeps its
\* properties in creation order.  For each i < indices.length the key is
\* keyStrs[i] and the member pushed is members[i].
RECURSIVE GroupsLoop(_, _, _, _)
GroupsLoop(keyStrs, members, i, groups) ==
    IF i > Len(keyStrs) THEN groups
    ELSE IF \A g \in 1..Len(groups) : groups[g].key # keyStrs[i]
    THEN GroupsLoop(keyStrs, members, i + 1,
            Append(groups, [key |-> keyStrs[i], rows |-> <<members[i]>>]))
    ELSE GroupsLoop(keyStrs, members, i + 1,
            [groups EXCEPT
                ![CHOOSE g \in 1..Len(groups) : groups[g].key = keyStrs[i]].rows =
                    Append(@, members[i])])

\* the array-index keys of a list of properties, in ascending numeric order
IndexKeysAscending(props) ==
    LET isAt(k) == {g \in 1..Len(props) : props[g].key = Numerals[k]}
        RECURSIVE From(_)
        From(k) ==
            IF k > MaxNum THEN <<>>
            ELSE IF isAt(k) = {} THEN From(k + 1)
            ELSE <<props[CHOOSE g \in isAt(k) : TRUE]>> \o From(k + 1)
    IN  From(0)

\* Object.values(groups): own properties are enumerated with the array-index
\* keys first, in ascending numeric order, then the other string keys in
\* creation order
ObjectValues(props) ==
    LET rowsOf(ordered) == [g \in 1..Len(ordered) |-> ordered[g].rows]
    IN  rowsOf(IndexKeysAscending(props) \o
               SelectSeq(props, LAMBDA g : ~ IsIndexStr(g.key)))

\* a groupBy that keeps only the member that opened each group
GroupBy5Openers(cols, keys, n) ==
    LET all == ObjectValues(
                GroupsLoop([i \in 1..n |->
                                JoinBar([k \in 1..Len(keys) |-> At(cols[keys[k]], i - 1)])],
                           Iota(n), 1, <<>>))
    IN  [g \in 1..Len(all) |-> <<all[g][1]>>]

\* DT_col5 groupBy(columns, keys, indices): the key of the i-th filtered row
\* is read at position i of the (already filtered) result columns, and the
\* member pushed is i
GroupBy5(cols, keys, n) ==
    ObjectValues(
        GroupsLoop([i \in 1..n |->
                        JoinBar([k \in 1..Len(keys) |-> At(cols[keys[k]], i - 1)])],
                   Iota(n), 1, <<>>))

\* DT_col4 groupBy(this._data, keys, indices): the key is read at the
\* original position indices[i], and the member pushed is indices[i]
GroupBy4(h, T, keys, indices) ==
    ObjectValues(
        GroupsLoop([i \in 1..Len(indices) |->
                        JoinBar([k \in 1..Len(keys) |->
                                    At(Col(h, T, keys[k]), indices[i])])],
                   indices, 1, <<>>))

-----------------------------------------------------------------------------
(* DT_col5: query returns a new table                                       *)

\* what a query has built so far: the result columns in property order,
\* whether a callback or a property read threw, and the callbacks called
Built(threw, keyOrder, data, calls) ==
    [threw |-> threw, keyOrder |-> keyOrder, data |-> data, calls |-> calls]

Thrown(calls) == Built(TRUE, <<>>, <<>>, calls)

\* obj[key] = value on an object whose keys are kept in creation order
SetProp(b, key, value) ==
    Built(b.threw,
          IF key \in Range(b.keyOrder) THEN b.keyOrder ELSE Append(b.keyOrder, key),
          [k \in (DOMAIN b.data) \cup {key} |-> IF k = key THEN value ELSE b.data[k]],
          b.calls)

\* indices.map((i) => fn(this.getRow(i), i)): the values returned, up to
\* and including the first call that throws
UpTo(all, idx, stop) ==
    [threw |-> stop > 0 /\ all[stop].threw,
     vals |-> [j \in 1..stop |-> all[j].v],
     pos |-> [j \in 1..stop |-> idx[j]]]

Mapped(all, idx) ==
    UpTo(all, idx,
         IF \A j \in 1..Len(idx) : ~ all[j].threw THEN Len(idx)
         ELSE CHOOSE j \in 1..Len(idx) :
                /\ all[j].threw
                /\ \A x \in 1..(j - 1) : ~ all[x].threw)

MapFn(h, T, fn, idx) ==
    Mapped([j \in 1..Len(idx) |-> Apply(fn, RowArg(GetRow(h, T, idx[j])), idx[j])],
           idx)

CallsOf(key, m) == [j \in 1..Len(m.pos) |-> Call(key, "row", <<m.pos[j]>>)]

\* for (const [key, fn] of Object.entries(operations.assign))
\*     resultColumns[key] = indices.map((i) => fn(this.getRow(i), i))
RECURSIVE AssignLoop5(_, _, _, _, _)
AssignStep5(h, T, entries, idx, b, m) ==
    IF m.threw THEN Thrown(b.calls \o CallsOf(entries[1].key, m))
    ELSE AssignLoop5(h, T, Tail(entries), idx,
            SetProp(Built(FALSE, b.keyOrder, b.data,
                          b.calls \o CallsOf(entries[1].key, m)),
                    entries[1].key, m.vals))

AssignLoop5(h, T, entries, idx, b) ==
    IF entries = <<>> THEN b
    ELSE AssignStep5(h, T, entries, idx, b, MapFn(h, T, entries[1].fn, idx))

\* a select that keeps the listed columns in the table's own column order
SelectedInTableOrder(h, T, q, idx) ==
    LET keyOrder == IF q.hasSelect
                    THEN SelectSeq(T.columns, LAMBDA c : c \in Range(q.select))
                    ELSE T.columns
    IN  IF keyOrder = <<>> THEN Thrown(<<>>)
        ELSE Built(FALSE, keyOrder,
                   [k \in Range(keyOrder) |->
                        [j \in 1..Len(idx) |-> At(Col(h, T, k), idx[j])]],
                   <<>>)

\* the select / else branch: resultColumns[key] = indices.map(i => _data[key][i]);
\* reading [i] of a column the table does not have throws a TypeError
Selected(h, T, q, idx) ==
    LET keyOrder == IF q.hasSelect THEN q.select ELSE T.columns
    IN  IF idx # <<>> /\ \E k \in Range(keyOrder) : k \notin DOMAIN T.data
        THEN Thrown(<<>>)
        ELSE Built(FALSE, keyOrder,
                   [k \in Range(keyOrder) |->
                        [j \in 1..Len(idx) |-> At(Col(h, T, k), idx[j])]],
                   <<>>)

\* the grouping branch: every result column keeps, per group, the value at
\* the group's first member: grouped.map((g) => values[g[0]])
FirstOfGroups5(b, grouped) ==
    Built(FALSE, b.keyOrder,
          [k \in DOMAIN b.data |->
               [g \in 1..Len(grouped) |-> At(b.data[k], grouped[g][1])]],
          b.calls)

Grouped5(b, by, n) ==
    IF n > 0 /\ \E k \in Range(by) : k \notin Range(b.keyOrder)
    THEN Thrown(b.calls)
    ELSE FirstOfGroups5(b, GroupBy5(b.data, by, n))

\* the whole of query up to the constructor call; new DataTable(resultColumns)
\* reads data[this._columns[0]].length, which throws when there is no column
Constructible(b) ==
    IF ~ b.threw /\ b.keyOrder = <<>> THEN Thrown(b.calls) ELSE b

AfterAssign5(q, idx, b) ==
    Constructible(IF b.threw \/ q.by = <<>> THEN b ELSE Grouped5(b, q.by, Len(idx)))

AfterSelect5(h, T, q, idx, b) ==
    AfterAssign5(q, idx, IF b.threw THEN b ELSE AssignLoop5(h, T, q.assign, idx, b))

AfterFilter5(h, T, q, idx) ==
    AfterSelect5(h, T, q, idx, Selected(h, T, q, idx))

Query5Result(h, T, q) == AfterFilter5(h, T, q, Indices(h, T, q.filter))

\* the heap without the arrays of table id
Dropped(h, id) == [a \in Addr |-> IF a[1] = id THEN <<>> ELSE h[a]]

Query5(q) ==
    /\ Idle
    /\ \E r \in {Query5Result(heap, tab[1], q)} :
           IF r.threw
           THEN /\ tab' = tab
                /\ heap' = heap
                /\ last' = Last("query", 1, q, TRUE, 0, r.calls)
           ELSE /\ tab' = [tab EXCEPT ![2] = FromColumns(2, r.keyOrder, r.data)]
                /\ heap' = Store(heap, 2, r.keyOrder, r.data)
                /\ last' = Last("query", 1, q, FALSE, 2, r.calls)

\* the caller drops the table a query returned (a query statement whose
\* value is not kept)
Release ==
    /\ ~ Idle
    /\ tab' = [tab EXCEPT ![2] = NoTable]
    /\ heap' = Dropped(heap, 2)
    /\ last' = Last("release", 2, NoQuery, FALSE, 0, <<>>)

-----------------------------------------------------------------------------
(* The table of DT_col5.ts under every call sequence                        *)

KeyLists == {<<"age">>}

OrderLists == {<<"age">>, <<"name">>, <<"name", "age">>}

Next ==
    \/ \E t \in TableIds : \E row \in Records : AddRow(t, row)
    \/ \E key \in KeyLists : SetKey(1, key)
    \/ \E t \in TableIds : \E cols \in OrderLists : SetOrder(t, cols)
    \/ \E q \in QueryArgs : Query5(q)
    \/ Release

Spec == Init /\ [][Next]_vars

-----------------------------------------------------------------------------
(* DT_col4: query assigns in place                                          *)

\* the receiver while the assign loop runs: its heap, its table record,
\* the callbacks called and whether one threw
Running(h, T, threw, calls) == [h |-> h, T |-> T, threw |-> threw, calls |-> calls]

\* (this._data as any)[key] = newColumn;
\* if (!this._columns.includes(key)) this._columns.push(key)
Assigned(h, T, key, newColumn) ==
    [h |-> [h EXCEPT ![<<1, key>>] = newColumn],
     T |-> [T EXCEPT
              !.data = [k \in (DOMAIN T.data) \cup {key} |->
                          IF k = key THEN <<1, key>> ELSE T.data[k]],
              !.columns = IF key \in Range(T.columns) THEN @ ELSE Append(@, key)]]

\* for (const [key, fn] of Object.entries(operations.assign)): each column
\* is computed over the filtered indices and stored before the next
\* function runs, and getRow reads the table as it is by then
RECURSIVE AssignLoop4(_, _, _)
AssignStep4(entries, idx, r, m) ==
    IF m.threw
    THEN Running(r.h, r.T, TRUE, r.calls \o CallsOf(entries[1].key, m))
    ELSE AssignLoop4(Tail(entries), idx,
            Running(Assigned(r.h, r.T, entries[1].key, m.vals).h,
                    Assigned(r.h, r.T, entries[1].key, m.vals).T,
                    FALSE, r.calls \o CallsOf(entries[1].key, m)))

AssignLoop4(entries, idx, r) ==
    IF entries = <<>> THEN r
    ELSE AssignStep4(entries, idx, r, MapFn(r.h, r.T, entries[1].fn, idx))

\* the select branch: selectedData[key] = indices.map((i) => this._data[key][i])
Selected4(h, T, select, idx) ==
    IF idx # <<>> /\ \E k \in Range(select) : k \notin DOMAIN T.data
    THEN Thrown(<<>>)
    ELSE Built(FALSE, select,
               [k \in Range(select) |->
                    [j \in 1..Len(idx) |-> At(Col(h, T, k), idx[j])]],
               <<>>)

\* the grouping branch: for every column of _columns, the value at the
\* first member of each group
FirstOfGroups4(h, T, grouped) ==
    Built(FALSE, T.columns,
          [k \in Range(T.columns) |->
               [g \in 1..Len(grouped) |-> At(Col(h, T, k), grouped[g][1])]],
          <<>>)

Grouped4(h, T, by, idx) ==
    IF idx # <<>> /\ \E k \in Range(by) : k \notin DOMAIN T.data
    THEN Thrown(<<>>)
    ELSE FirstOfGroups4(h, T, GroupBy4(h, T, by, idx))

\* what query hands to new DataTable(...), or that it returns this
Returned4(h, T, q, idx) ==
    IF q.hasSelect THEN Selected4(h, T, q.select, idx)
    ELSE IF q.by # <<>> THEN Grouped4(h, T, q.by, idx)
    ELSE Built(FALSE, <<>>, <<>>, <<>>)

Query4(q) ==
    /\ Idle
    /\ \E idx \in {Indices(heap, tab[1], q.filter)} :
       \E a \in {AssignLoop4(q.assign, idx, Running(heap, tab[1], FALSE, <<>>))} :
       \E b \in {Returned4(a.h, a.T, q, idx)} :
           IF a.threw \/ b.threw \/ (q.hasSelect /\ q.select = <<>>)
           THEN /\ tab' = [tab EXCEPT ![1] = a.T]
                /\ heap' = a.h
                /\ last' = Last("query", 1, q, TRUE, 0, a.calls)
           ELSE IF q.hasSelect \/ q.by # <<>>
           THEN /\ tab' = [tab EXCEPT ![1] = a.T,
                                      ![2] = FromColumns(2, b.keyOrder, b.data)]
                /\ heap' = Store(a.h, 2, b.keyOrder, b.data)
                /\ last' = Last("query", 1, q, FALSE, 2, a.calls)
           ELSE /\ tab' = [tab EXCEPT ![1] = a.T]
                /\ heap' = a.h
                /\ last' = Last("query", 1, q, FALSE, 1, a.calls)

-----------------------------------------------------------------------------
(* The table of DT_col4.ts under every call sequence                        *)

\* select and by of the calls made on a DT_col4 table
Shapes4 ==
    {[has |-> FALSE, cols |-> <<>>, by |-> <<>>],
     [has |-> TRUE, cols |-> <<"name", "age">>, by |-> <<>>],
     [has |-> FALSE, cols |-> <<>>, by |-> <<"age">>],
     [has |-> FALSE, cols |-> <<>>, by |-> <<"ageGroup">>]}

\* the assign objects of the calls made on a DT_col4 table
Assigns4 ==
    {<<>>,
     <<AssignEntry("ageGroup", "ageGroup")>>,
     <<AssignEntry("ageGroup", "ageGroup"), AssignEntry("n", "minAge")>>}

QueryArgs4 ==
    {[filter |-> f, hasSelect |-> s.has, select |-> s.cols, assign |-> a, by |-> s.by] :
        f \in Filters, s \in Shapes4, a \in Assigns4}

Next4 ==
    \/ \E t \in TableIds : \E row \in Records4 : AddRow(t, row)
    \/ \E key \in KeyLists : SetKey(1, key)
    \/ \E t \in TableIds : \E cols \in OrderLists : SetOrder(t, cols)
    \/ \E q \in QueryArgs4 : Query4(q)
    \/ Release

Spec4 == Init4 /\ [][Next4]_vars

-----------------------------------------------------------------------------
(* Vocabulary of the properties                                             *)

\* everything a caller can observe of table t
Image(t) ==
    [columns |-> tab[t].columns,
     rowCount |-> tab[t].rowCount,
     keys |-> tab[t].keys,
     cells |-> [c \in DOMAIN tab[t].data |-> heap[tab[t].data[c]]]]

\* the rows of table t, first to last
RowsOf(t) == [i \in 1..tab[t].rowCount |-> GetRow(heap, tab[t], i - 1)]

\* no array is a column of both tables
Unshared ==
    \A c1 \in DOMAIN tab[1].data : \A c2 \in DOMAIN tab[2].data :
        tab[1].data[c1] # tab[2].data[c2]

\* a call query(f): no j, no by
PlainFilter(q) == ~ q.hasSelect /\ q.assign = <<>> /\ q.by = <<>>

\* the positions of the receiver's rows that satisfy the filter of q
Passing(q) ==
    {i \in 0..(tab[1].rowCount - 1) : FilterFn(q.filter, GetRow(heap, tab[1], i))}

\* the latest call was a query that returned a table
Answered == last.op = "query" /\ ~ last.threw

\* C1: query(f) with no j and no by returns a table holding exactly the rows
\* that satisfy f, in their original order and with every column, and its
\* row count is the number of rows satisfying f (0 included).
C1_FilterKeepsMatchingRows ==
    (last.op = "query" /\ PlainFilter(last.q)) =>
        /\ ~ last.threw
        /\ last.ret = 2
        /\ tab[2].columns = tab[1].columns
        /\ \A c \in Range(tab[2].columns) :
                Len(Col(heap, tab[2], c)) = tab[2].rowCount
        /\ RowsOf(2) = SelectSeq(RowsOf(1), LAMBDA r : FilterFn(last.q.filter, r))
        /\ tab[2].rowCount = Cardinality(Passing(last.q))

\* a filter that drops the first of two rows and keeps the second
C1_Witness ==
    /\ last.op = "query" /\ PlainFilter(last.q) /\ last.q.filter = "ageGE30"
    /\ tab[1].rowCount = 2
    /\ Passing(last.q) = {1}
    /\ tab[2].rowCount = 1

-----------------------------------------------------------------------------
(* The in-place queries of DT_col4                                          *)

\* C3: in every reachable state every column of a table has exactly
\* rowCount entries: after construction, appends, setorder, setkey and
\* in-place assigning queries, with or without a filter.
C3_ColumnsInStep ==
    \A t \in TableIds :
        Live(t) =>
            \A c \in DOMAIN tab[t].data :
                Len(heap[tab[t].data[c]]) = tab[t].rowCount

\* ageGroup holds, for every row of the receiver, what the ageGroup function
\* gives for that row
AgeGroupAssigned ==
    /\ "ageGroup" \in DOMAIN tab[1].data
    /\ Len(Col(heap, tab[1], "ageGroup")) = tab[1].rowCount
    /\ \A i \in 0..(tab[1].rowCount - 1) :
            At(Col(heap, tab[1], "ageGroup"), i)
                = Apply("ageGroup", RowArg(GetRow(heap, tab[1], i)), i).v

\* the rows of the table the latest call returned
RowsReturned ==
    [i \in 1..tab[last.ret].rowCount |-> GetRow(heap, tab[last.ret], i - 1)]

\* C4: once an in-place assigning query with no filter has added ageGroup,
\* query(row => row.ageGroup === 'Young') on the same table returns exactly
\* the rows whose age is below 30.
C4_RequeryAfterAssign ==
    (last.op = "query" /\ PlainFilter(last.q) /\ last.q.filter = "isYoung"
        /\ AgeGroupAssigned) =>
        /\ ~ last.threw
        /\ last.ret \in TableIds
        /\ RowsReturned
            = SelectSeq(RowsOf(1), LAMBDA r : JsLt(Get(r, "age"), Num(30)))

\* the keys a query's j assigns
AssignedKeys(q) == {q.assign[n].key : n \in 1..Len(q.assign)}

\* the value row i of the receiver has in column c, undefined where the
\* table has no such column
Cell(c, i) ==
    IF c \in DOMAIN tab[1].data THEN At(Col(heap, tab[1], c), i) ELSE Undef

\* C5: an in-place assigning query with a filter writes the computed value
\* at the original position of every matching row, leaves every
\* non-matching row of the assigned column as it was (undefined for a new
\* column), and leaves the other columns and the row count unchanged.
C5_FilteredAssignInPlace ==
    [][(last'.op = "query" /\ ~ last'.threw /\ last'.q.assign # <<>>
            /\ last'.q.filter # "none") =>
        /\ tab'[1].rowCount = tab[1].rowCount
        /\ \A c \in DOMAIN tab[1].data \ AssignedKeys(last'.q) :
                /\ c \in DOMAIN tab'[1].data
                /\ heap'[tab'[1].data[c]] = heap[tab[1].data[c]]
        /\ \A n \in 1..Len(last'.q.assign) :
                \A i \in 0..(tab[1].rowCount - 1) :
                    /\ last'.q.assign[n].key \in DOMAIN tab'[1].data
                    /\ At(heap'[tab'[1].data[last'.q.assign[n].key]], i)
                        = IF i \in Passing(last'.q)
                          THEN Apply(last'.q.assign[n].fn,
                                     RowArg(GetRow(heap, tab[1], i)), i).v
                          ELSE Cell(last'.q.assign[n].key, i)]_vars

\* C6: an in-place assigning call that fails leaves the table exactly as it
\* was before the call: no column assigned earlier in that call is written
\* or added.
C6_FailedAssignWritesNothing ==
    [][(last'.op = "query" /\ last'.threw) => Image(1)' = Image(1)]_vars

-----------------------------------------------------------------------------
(* The grouped queries of DT_col5                                           *)

\* the value column c has for row i of the receiver in the working set of
\* query q: the assigned value where q assigns c, the stored one otherwise
WorkingValue(q, c, i) ==
    IF \E n \in 1..Len(q.assign) : q.assign[n].key = c
    THEN Apply(q.assign[CHOOSE n \in 1..Len(q.assign) : q.assign[n].key = c].fn,
               RowArg(GetRow(heap, tab[1], i)), i).v
    ELSE Cell(c, i)

\* the by-key tuple of row i of the receiver
ByTuple(q, i) == [k \in 1..Len(q.by) |-> WorkingValue(q, q.by[k], i)]

\* the by-key tuples of the filtered rows, each at its first occurrence
FirstOccurrences(q, idx) ==
    LET firsts == SelectSeq([j \in 1..Len(idx) |-> j],
                     LAMBDA j : \A e \in 1..(j - 1) :
                         ByTuple(q, idx[e]) # ByTuple(q, idx[j]))
    IN  [g \in 1..Len(firsts) |-> ByTuple(q, idx[firsts[g]])]

\* the value of column c in row g (from 1) of the result
ResultCell(c, g) ==
    IF c \in DOMAIN tab[2].data THEN At(Col(heap, tab[2], c), g - 1) ELSE Undef

\* the by-key tuple of row g of the result
ResultTuple(q, g) == [k \in 1..Len(q.by) |-> ResultCell(q.by[k], g)]

\* the filtered rows' positions whose by-key tuple is that of result row g
Members(q, idx, g) ==
    SelectSeq(idx, LAMBDA i : ByTuple(q, i) = ResultTuple(q, g))

\* the latest call was a grouped query that returned a table
AnsweredGrouped == Answered /\ last.q.by # <<>>

\* C7: the groups of a grouped query come in the order in which each by-key
\* tuple first occurs among the filtered rows, whatever the key values are
\* (numeric values such as 30, 25, 35 included); they are never sorted.
C7_GroupsInFirstOccurrenceOrder ==
    AnsweredGrouped =>
        \E fo \in {FirstOccurrences(last.q, Indices(heap, tab[1], last.q.filter))} :
            /\ tab[2].rowCount <= Len(fo)
            /\ \A g \in 1..tab[2].rowCount : ResultTuple(last.q, g) = fo[g]

\* C8: in a grouped query each j function is applied once per group, is
\* handed that group's rows, and what it returns is the value of its output
\* column in that group's row.
C8_FunctionAppliedPerGroup ==
    AnsweredGrouped =>
        \E idx \in {Indices(heap, tab[1], last.q.filter)} :
            \A n \in 1..Len(last.q.assign) :
                last.q.assign[n].key \notin Range(last.q.by) =>
                    \E mine \in {SelectSeq(last.calls,
                                    LAMBDA c : c.key = last.q.assign[n].key)} :
                        /\ Len(mine) = tab[2].rowCount
                        /\ \A g \in 1..tab[2].rowCount :
                            \E ms \in {Members(last.q, idx, g)} :
                                /\ mine[g].kind = "group"
                                /\ mine[g].pos = ms
                                /\ ResultCell(last.q.assign[n].key, g)
                                    = Apply(last.q.assign[n].fn,
                                            GroupArg([j \in 1..Len(ms) |->
                                                GetRow(heap, tab[1], ms[j])]),
                                            g - 1).v

\* C9: the result of a grouped query has as many rows as there are distinct
\* by-key tuples among the rows that pass the filter.
C9_OneRowPerDistinctTuple ==
    AnsweredGrouped =>
        tab[2].rowCount = Cardinality({ByTuple(last.q, i) : i \in Passing(last.q)})

\* C10: the result of a grouped query holds the grouping-key columns and the
\* computed output columns, and no other column.
C10_OnlyKeysAndOutputs ==
    AnsweredGrouped =>
        Range(tab[2].columns) \subseteq Range(last.q.by) \union AssignedKeys(last.q)

-----------------------------------------------------------------------------
(* The groups behind a grouped query                                        *)

\* what groupBy returned to the latest query: the receiver is as it was, so
\* the working set is rebuilt from it and grouped again
GroupsOfLast ==
    LET idx == Indices(heap, tab[1], last.q.filter)
        b == AssignLoop5(heap, tab[1], last.q.assign, idx,
                         Selected(heap, tab[1], last.q, idx))
    IN  GroupBy5(b.data, last.q.by, Len(idx))

RECURSIVE SizeSum(_)
SizeSum(groups) ==
    IF groups = <<>> THEN 0 ELSE Len(Head(groups)) + SizeSum(Tail(groups))

-----------------------------------------------------------------------------
(* Queries that select columns                                              *)

\* select lists: one column, both columns in either order, and a column the
\* table does not have
SelectLists ==
    {<<"age">>, <<"name">>, <<"name", "age">>, <<"age", "name">>, <<"ageGroup">>}

QueryArgsSelect ==
    {[filter |-> f, hasSelect |-> TRUE, select |-> s, assign |-> a, by |-> b] :
        f \in Filters, s \in SelectLists,
        a \in {<<>>, <<AssignEntry("ageGroup", "ageGroup")>>},
        b \in {<<>>, <<"age">>, <<"ageGroup">>}}

NextSelect ==
    \/ \E t \in TableIds : \E row \in Records : AddRow(t, row)
    \/ \E q \in QueryArgsSelect : Query5(q)
    \/ Release

SpecSelect == Init /\ [][NextSelect]_vars

\* the positions of the rows passing the filter of q, in ascending order
PassingSeq(q) == SelectSeq(Iota(tab[1].rowCount), LAMBDA i : i \in Passing(q))

RECURSIVE WithAssigned(_, _)
WithAssigned(cols, entries) ==
    IF entries = <<>> THEN cols
    ELSE WithAssigned(IF entries[1].key \in Range(cols) THEN cols
                      ELSE Append(cols, entries[1].key),
                      Tail(entries))

\* C13: in a call with both select and assign, assign works on the
\* post-select working set: the result holds the selected columns plus the
\* assigned ones, and an assign function that reads a column select removed
\* fails instead of reading that column's value.
C13_AssignSeesSelectedColumnsOnly ==
    (last.op = "query" /\ last.q.hasSelect /\ last.q.assign # <<>>
        /\ last.q.by = <<>> /\ Passing(last.q) # {}
        /\ Range(last.q.select) \subseteq DOMAIN tab[1].data) =>
        IF \A n \in 1..Len(last.q.assign) :
                Reads(last.q.assign[n].fn) \subseteq Range(last.q.select)
        THEN /\ ~ last.threw
             /\ tab[2].columns = WithAssigned(last.q.select, last.q.assign)
        ELSE last.threw

\* the columns a query names in select or by that are neither columns of
\* the receiver nor assigned by the same call
UnknownNamed(q) ==
    (Range(q.select) \union Range(q.by)) \ (DOMAIN tab[1].data \union AssignedKeys(q))

\* C14: a query that names, in select or in by, a column the table does not
\* have fails and returns no table, for every table and every filter, a
\* filter that matches no row included.
C14_UnknownColumnFails ==
    (last.op = "query" /\ UnknownNamed(last.q) # {}) =>
        (last.threw /\ last.ret = 0)

-----------------------------------------------------------------------------
(* addRow with records of any shape                                         *)

\* records that lack the name column, or carry a column n the table does
\* not declare
LooseRecords ==
    {[c \in {"age"} |-> a] : a \in Ages}
        \union {[c \in {"age", "name", "n"} |->
                    IF c = "age" THEN a ELSE IF c = "name" THEN Str("a") ELSE Num(1)] :
                a \in Ages}

NextRows ==
    \/ \E t \in TableIds : \E row \in Records \union LooseRecords : AddRow(t, row)
    \/ \E key \in KeyLists : SetKey(1, key)

SpecRows == Init /\ [][NextRows]_vars

\* C15: addRow with a record that lacks a declared column, or carries a
\* column the table does not declare, fails and leaves the table unchanged:
\* no column grows and the row count stays.
C15_AddRowRejectsWrongShape ==
    [][\A t \in TableIds : \A row \in LooseRecords :
        (AddRow(t, row) /\ DOMAIN row # Range(tab[t].columns)) =>
            (last'.threw /\ Image(t)' = Image(t))]_vars

-----------------------------------------------------------------------------
(* Construction from any input                                              *)

\* rows handed to new DataTable([...]): no row at all, rows without any
\* property, rows lacking a column, full rows
RowRecords ==
    {<<>>} \union {[c \in {"age"} |-> a] : a \in {Num(25), Num(30)}}
           \union {r \in Records : r["name"] = Str("a")}

RowInputs == {<<>>} \union UNION {[1..k -> RowRecords] : k \in 1..MaxRows}

\* column-major input handed to new DataTable({...}): the keys in creation
\* order and an array per key, the arrays of any length up to MaxRows
AgeArrays == UNION {[1..k -> {Num(25), Num(30)}] : k \in 0..MaxRows}

NameArrays == UNION {[1..k -> {Str("a")}] : k \in 0..MaxRows}

ColumnInputs ==
    {[keyOrder |-> <<>>, data |-> <<>>]}
        \union {[keyOrder |-> <<"age">>, data |-> [c \in {"age"} |-> a]] :
                    a \in AgeArrays}
        \union {[keyOrder |-> <<"age", "name">>,
                 data |-> [c \in {"age", "name"} |-> IF c = "age" THEN a ELSE n]] :
                    a \in AgeArrays, n \in NameArrays}

\* no table has been constructed yet
Unbuilt == tab[1] = NoTable /\ last.op = "none"

\* the constructor threw: there is no table object
FailedNew ==
    /\ tab' = tab
    /\ heap' = heap
    /\ last' = Last("new", 1, NoQuery, TRUE, 0, <<>>)

\* new DataTable(rows): Object.keys(data[0]) throws a TypeError when there
\* is no first row; otherwise the columns are the first row's keys and each
\* column is data.map((row) => row[column])
NewFromRows(rows) ==
    /\ Unbuilt
    /\ IF rows = <<>> THEN FailedNew
       ELSE /\ tab' = [tab EXCEPT ![1] =
                        [columns |-> RowsColumns(rows),
                         data |-> [c \in Range(RowsColumns(rows)) |-> <<1, c>>],
                         rowCount |-> Len(rows),
                         keys |-> {}]]
            /\ heap' = [a \in Addr |->
                          IF a[1] = 1 /\ a[2] \in Range(RowsColumns(rows))
                          THEN RowsData(rows, a[2]) ELSE <<>>]
            /\ last' = Last("new", 1, NoQuery, FALSE, 1, <<>>)

\* new DataTable(columns): data[this._columns[0]].length throws a TypeError
\* when the object has no key; otherwise the object is adopted as it is
NewFromColumns(cin) ==
    /\ Unbuilt
    /\ IF cin.keyOrder = <<>> THEN FailedNew
       ELSE /\ tab' = [tab EXCEPT ![1] = FromColumns(1, cin.keyOrder, cin.data)]
            /\ heap' = Store(heap, 1, cin.keyOrder, cin.data)
            /\ last' = Last("new", 1, NoQuery, FALSE, 1, <<>>)

InitNew ==
    /\ tab = [t \in TableIds |-> NoTable]
    /\ heap = [a \in Addr |-> <<>>]
    /\ last = Last("none", 0, NoQuery, FALSE, 0, <<>>)

NextNew ==
    \/ \E rows \in RowInputs : NewFromRows(rows)
    \/ \E cin \in ColumnInputs : NewFromColumns(cin)
    \/ \E row \in Records : AddRow(1, row)

SpecNew == InitNew /\ [][NextNew]_vars

\* C16: constructing a table from zero rows or from zero columns fails, and
\* no table object with an empty schema is ever produced.
C16_EmptyInputFails ==
    [][/\ \A rows \in RowInputs :
            (NewFromRows(rows) /\ (rows = <<>> \/ DOMAIN rows[1] = {})) =>
                (last'.threw /\ ~ Live(1)')
       /\ \A cin \in ColumnInputs :
            (NewFromColumns(cin) /\ cin.keyOrder = <<>>) =>
                (last'.threw /\ ~ Live(1)')
       /\ Live(1)' => tab'[1].columns # <<>>]_vars

\* C17: constructing a table from column-major input whose arrays differ in
\* length fails; it never yields a table whose row count is the length of
\* the first column while another column is longer or shorter.
C17_UnequalColumnsFail ==
    [][\A cin \in ColumnInputs :
        (NewFromColumns(cin)
            /\ \E c \in Range(cin.keyOrder) :
                    Len(cin.data[c]) # Len(cin.data[cin.keyOrder[1]])) =>
            (last'.threw /\ ~ Live(1)')]_vars

-----------------------------------------------------------------------------
(* setkey and setorder                                                      *)

\* in table t the step moved the row at prior position p[k] to position k
MovedBy(t, p) ==
    \A k \in 1..Len(p) : RowsOf(t)'[k] = RowsOf(t)[p[k] + 1]

\* the step left the rows of table t in nondecreasing order of cols under
\* the comparator of setorder, rows that tie on cols in their prior order
StablySorted(t, cols) ==
    /\ tab'[t].rowCount = tab[t].rowCount
    /\ \A i, j \in 0..(tab'[t].rowCount - 1) :
            i < j => Cmp(heap', tab'[t], cols, i, j) <= 0
    /\ \E p \in Orders[tab[t].rowCount] :
            /\ MovedBy(t, p)
            /\ \A i, j \in 1..Len(p) :
                    (i < j /\ Cmp(heap, tab[t], cols, p[i], p[j]) = 0) => p[i] < p[j]

\* C18: after setkey(cols) the rows are physically in nondecreasing order of
\* the key columns, rows with equal keys keep their prior relative order,
\* and the key set is exactly cols (a second setkey replaces the first).
C18_SetKeySortsRows ==
    [][\A key \in KeyLists :
        SetKey(1, key) => (StablySorted(1, key) /\ tab'[1].keys = Range(key))]_vars

\* the records of the tables that are reordered: a name column of strings
\* with null cells, and an age column of numbers
OrderRecords ==
    {[c \in {"age", "name"} |-> IF c = "age" THEN Num(25) ELSE n] :
        n \in {Str("a"), Str("b"), Null}}
        \union {[c \in {"age", "name"} |-> IF c = "age" THEN Num(30) ELSE Str("a")]}

InitOrder == ConstructedUpTo(OrderRecords, MaxOrderRows)

NextOrder ==
    \/ \E cols \in OrderLists : SetOrder(1, cols)
    \/ \E key \in KeyLists : SetKey(1, key)

SpecOrder == InitOrder /\ [][NextOrder]_vars

\* C19: setorder applies one and the same row permutation to every column
\* in place: the whole rows after the call are the whole rows before it in
\* another order, and the row count, the column list and the key are as
\* before.
C19_SetOrderPermutesWholeRows ==
    [][\A cols \in OrderLists :
        SetOrder(1, cols) =>
            /\ tab'[1].rowCount = tab[1].rowCount
            /\ tab'[1].columns = tab[1].columns
            /\ tab'[1].keys = tab[1].keys
            /\ \A c \in Range(tab'[1].columns) :
                    Len(heap'[tab'[1].data[c]]) = tab'[1].rowCount
            /\ \E p \in Orders[tab[1].rowCount] : MovedBy(1, p)]_vars

\* setorder was called on a table of three different rows
C19_Witness ==
    /\ last.op = "setorder" /\ last.target = 1
    /\ tab[1].rowCount = 3
    /\ \A i, j \in 1..3 : i # j => RowsOf(1)[i] # RowsOf(1)[j]
    /\ Col(heap, tab[1], "name") = <<Str("a"), Str("a"), Str("b")>>
    /\ Col(heap, tab[1], "age") = <<Num(30), Num(25), Num(25)>>
    /\ tab[1].keys = {}

\* C20: after setorder(cols) the rows are in nondecreasing lexicographic
\* order of cols, rows that tie on all of cols keep their prior relative
\* order, and a second setorder(cols) changes nothing.
C20_SetOrderSortsStably ==
    [][\A cols \in OrderLists :
        SetOrder(1, cols) =>
            /\ StablySorted(1, cols)
            /\ SortedIndices(heap', tab'[1], cols) = {Iota(tab'[1].rowCount)}]_vars

-----------------------------------------------------------------------------
(* addRow and addRows                                                       *)

\* for (const row of rows) this.addRow(row)
RECURSIVE PushAll(_, _, _)
PushAll(h, T, rows) ==
    IF rows = <<>> THEN h ELSE PushAll(Push(h, T, rows[1]), T, Tail(rows))

\* the arrays of records handed to addRows
AppendInputs ==
    UNION {[1..k -> {r \in Records : r["name"] = Str("a")}] : k \in 0..MaxAppend}

AddRows(t, rows) ==
    /\ Callable(t)
    /\ tab[t].rowCount + Len(rows) <= MaxRows + MaxAppend
    /\ heap' = PushAll(heap, tab[t], rows)
    /\ tab' = [tab EXCEPT ![t].rowCount = @ + Len(rows)]
    /\ last' = Last("addRows", t, NoQuery, FALSE, 0, <<>>)

NextAppend ==
    \/ \E t \in TableIds : \E row \in Records : AddRow(t, row)
    \/ \E t \in TableIds : \E rows \in AppendInputs : AddRows(t, rows)

SpecAppend == Init /\ [][NextAppend]_vars

\* C21: addRow appends exactly one row at the end: the row count grows by
\* one, the new last row holds the record's value for every column and the
\* earlier rows stay; addRows(rs) leaves the rows of rs after the earlier
\* rows in the order of rs, as calling addRow on each element would.
C21_AppendInCallOrder ==
    [][\A t \in TableIds :
        /\ \A row \in Records :
                AddRow(t, row) =>
                    /\ tab'[t].rowCount = tab[t].rowCount + 1
                    /\ RowsOf(t)' = Append(RowsOf(t), row)
        /\ \A rows \in AppendInputs :
                AddRows(t, rows) =>
                    /\ tab'[t].rowCount = tab[t].rowCount + Len(rows)
                    /\ RowsOf(t)' = RowsOf(t) \o rows]_vars

C21_Witness ==
    /\ last.op = "addRows"
    /\ tab[1].rowCount = 3
    /\ Col(heap, tab[1], "age") = <<Num(30), Num(25), Str("25")>>
    /\ Col(heap, tab[1], "name") = <<Str("b"), Str("a"), Str("a")>>

-----------------------------------------------------------------------------
(* The planned operations: melt, dcast and the joins                        *)
(* The README lists them as not yet implemented and the scripts only call   *)
(* them; they are modelled from their specification.  A table is a value:   *)
(* its column names and its rows.                                           *)

\* the wide tables: an id column and two measure columns
WideTables ==
    {[columns |-> <<"id", "x1", "x2">>, rows |-> rows] :
        rows \in UNION {[1..k ->
            {[c \in {"id", "x1", "x2"} |->
                IF c = "id" THEN Num(i) ELSE IF c = "x1" THEN Num(x) ELSE Num(4)] :
                i \in {1, 2}, x \in {1, 2}}] : k \in 1..MaxRows}}

\* the column lists handed to melt and dcast
IdLists == {<<>>, <<"id">>, <<"id", "x1">>}

MeasureLists == {<<>>, <<"x1">>, <<"x2">>, <<"x1", "x2">>, <<"x2", "x1">>}

\* a row cut down to the listed columns
Project(row, cols) == [c \in Range(cols) |-> row[c]]

\* the elements of a sequence, each once, in order of first occurrence
RECURSIVE Distinct(_)
Distinct(s) ==
    IF s = <<>> THEN <<>>
    ELSE LET d == Distinct(SubSeq(s, 1, Len(s) - 1))
         IN  IF s[Len(s)] \in Range(d) THEN d ELSE Append(d, s[Len(s)])

\* melt keeping the first measure column only
MeltFirstMeasure(T, ids, measures) ==
    [columns |-> ids \o <<"variable", "value">>,
     rows |-> [k \in 1..(IF measures = <<>> THEN 0 ELSE Len(T.rows)) |->
        [c \in Range(ids) \union {"variable", "value"} |->
            IF c = "variable" THEN Str(measures[1])
            ELSE IF c = "value" THEN T.rows[k][measures[1]]
            ELSE T.rows[k][c]]]]

\* melt: one row per (row of T, measure column), the identifier columns
\* repeated, the measure's name under variable and its value under value
MeltTable(T, ids, measures) ==
    [columns |-> ids \o <<"variable", "value">>,
     rows |-> [k \in 1..(Len(T.rows) * Len(measures)) |->
        LET m == measures[((k - 1) \div Len(T.rows)) + 1]
            r == T.rows[((k - 1) % Len(T.rows)) + 1]
        IN  [c \in Range(ids) \union {"variable", "value"} |->
                IF c = "variable" THEN Str(m)
                ELSE IF c = "value" THEN r[m]
                ELSE r[c]]]]

\* two rows of L share an identifier combination and a variable
Ambiguous(L, ids, variable) ==
    \E i, j \in 1..Len(L.rows) :
        /\ i < j
        /\ Project(L.rows[i], ids) = Project(L.rows[j], ids)
        /\ L.rows[i][variable] = L.rows[j][variable]

\* dcast: one row per distinct identifier combination and one column per
\* distinct variable, a null cell where no source row matches
DcastTable(L, ids, variable, value) ==
    LET groups == Distinct([k \in 1..Len(L.rows) |-> Project(L.rows[k], ids)])
        names == Distinct([k \in 1..Len(L.rows) |-> L.rows[k][variable].s])
    IN  [columns |-> ids \o names,
         rows |-> [g \in 1..Len(groups) |->
            [c \in Range(ids) \union Range(names) |->
                IF c \in Range(ids) THEN groups[g][c]
                ELSE LET from == {k \in 1..Len(L.rows) :
                                    /\ Project(L.rows[k], ids) = groups[g]
                                    /\ L.rows[k][variable] = Str(c)}
                     IN  IF from = {} THEN Null
                         ELSE L.rows[CHOOSE k \in from : TRUE][value]]]]

\* T.melt(ids, measures)
Melt(ids, measures) ==
    /\ last.op = "new"
    /\ last.ret \in WideTables
    /\ Range(ids) \cap Range(measures) = {}
    /\ last' = Last("melt", last.ret, [ids |-> ids, measures |-> measures],
                     FALSE, MeltTable(last.ret, ids, measures), <<>>)
    /\ UNCHANGED <<tab, heap>>

\* L.dcast(ids, "variable", "value") on the table melt returned: an unknown
\* identifier column and an ambiguous cell are errors
Dcast(ids) ==
    /\ last.op = "melt"
    /\ LET threw == \/ ~ (Range(ids) \subseteq Range(last.ret.columns))
                     \/ Ambiguous(last.ret, ids, "variable")
       IN  last' = Last("dcast", last.ret, [ids |-> ids, measures |-> <<>>], threw,
                        IF threw THEN last.ret
                        ELSE DcastTable(last.ret, ids, "variable", "value"),
                        <<>>)
    /\ UNCHANGED <<tab, heap>>

\* the right-hand tables of the joins
RightTables == {R \in WideTables : \A k \in 1..Len(R.rows) : R.rows[k]["x1"] = Num(1)}

OnLists == {<<"id">>, <<"id", "x1">>}

\* the positions of the rows of R whose key columns equal those of row l
Matches(l, R, on) ==
    SelectSeq(Iota(Len(R.rows)),
              LAMBDA j : Project(R.rows[j + 1], on) = Project(l, on))

\* the output row of a pair: the key columns once, the other columns of the
\* left row under their names and those of the right row suffixed; the
\* right side is null-filled when there is no right row (j < 0)
Paired(l, R, on, j) ==
    LET rest == {c \in Range(R.columns) : c \notin Range(on)}
    IN  [c \in DOMAIN l \union {d \o ".y" : d \in rest} |->
            IF c \in DOMAIN l THEN l[c]
            ELSE IF j < 0 THEN Null
            ELSE R.rows[j + 1][CHOOSE d \in rest : d \o ".y" = c]]

\* the output rows of one left row
RowsFor(l, R, on, left, nomatch) ==
    LET m == Matches(l, R, on)
    IN  IF m # <<>> THEN [k \in 1..Len(m) |-> Paired(l, R, on, m[k])]
        ELSE IF left /\ ~ nomatch THEN <<Paired(l, R, on, -1)>>
        ELSE <<>>

\* a join that pairs a left row with its first match only
RECURSIVE JoinFirstMatch(_, _, _, _, _)
JoinFirstMatch(L, R, on, left, nomatch) ==
    IF L = <<>> THEN <<>>
    ELSE (IF RowsFor(L[1], R, on, left, nomatch) = <<>> THEN <<>>
          ELSE <<RowsFor(L[1], R, on, left, nomatch)[1]>>)
            \o JoinFirstMatch(Tail(L), R, on, left, nomatch)

\* equi join of the rows L with the table R: every left row in order with
\* each of its matches (the Cartesian expansion on duplicate keys); in left
\* mode an unmatched left row is kept null-filled unless the no-match
\* suppression flag is set
RECURSIVE JoinRows(_, _, _, _, _)
JoinRows(L, R, on, left, nomatch) ==
    IF L = <<>> THEN <<>>
    ELSE RowsFor(L[1], R, on, left, nomatch)
            \o JoinRows(Tail(L), R, on, left, nomatch)

\* join(T, R, { on, nomatch }) and T.leftJoin(R, ...)
Join(R, on, left, nomatch) ==
    /\ last.op = "new"
    /\ last.ret \in WideTables
    /\ last' = Last("join", last.ret,
                     [on |-> on, left |-> left, nomatch |-> nomatch, right |-> R],
                     FALSE,
                     [columns |-> last.ret.columns \o
                        [k \in 1..(Len(R.columns) - Len(on)) |->
                            SelectSeq(R.columns, LAMBDA c : c \notin Range(on))[k] \o ".y"],
                      rows |-> JoinRows(last.ret.rows, R, on, left, nomatch)],
                     <<>>)
    /\ UNCHANGED <<tab, heap>>

\* the tables of the rolling join, keyed by a number kept in halves (2 stands
\* for 1, 3 for 1.5): the right table carries a value per key
ProbeTables ==
    {[columns |-> <<"key">>, rows |-> rows] :
        rows \in UNION {[1..k -> {[c \in {"key"} |-> Num(p)] : p \in {0, 3, 10}}] :
                            k \in 1..MaxOrderRows}}

KeyTables ==
    {[columns |-> <<"key", "value">>, rows |-> rows] :
        rows \in UNION {[1..k ->
            {[c \in {"key", "value"} |-> IF c = "key" THEN Num(n) ELSE Num(10 * n)] :
                n \in {2, 4, 6}}] : k \in 1..MaxOrderRows}}

\* at-or-after: the position of the right row with the least key not below
\* the probe
RollMatchAfter(p, R, key) ==
    LET above == {j \in 1..Len(R.rows) : R.rows[j][key].n >= p[key].n}
    IN  IF above = {} THEN -1
        ELSE (CHOOSE j \in above : \A i \in above :
                \/ R.rows[j][key].n < R.rows[i][key].n
                \/ R.rows[j][key].n = R.rows[i][key].n /\ j <= i) - 1

\* at-or-before: the position of the right row with the nearest key at or
\* before the probe (the last such row in key order), -1 when the probe
\* precedes every right key
RollMatch(p, R, key) ==
    LET below == {j \in 1..Len(R.rows) : R.rows[j][key].n <= p[key].n}
    IN  IF below = {} THEN -1
        ELSE (CHOOSE j \in below : \A i \in below :
                \/ R.rows[i][key].n < R.rows[j][key].n
                \/ R.rows[i][key].n = R.rows[j][key].n /\ i <= j) - 1

\* P.rollingJoin(R, { on: key }): every probe row with its match; a probe
\* without a match is null-filled in left mode and dropped in inner mode
RollingJoin(P, R, left) ==
    /\ last.op = "new"
    /\ P \in ProbeTables
    /\ last' = Last("rollingJoin", P,
                     [on |-> <<"key">>, left |-> left, nomatch |-> FALSE, right |-> R],
                     FALSE,
                     [columns |-> <<"key", "value.y">>,
                      rows |-> LET all == [k \in 1..Len(P.rows) |->
                                    Paired(P.rows[k], R, <<"key">>,
                                           RollMatch(P.rows[k], R, "key"))]
                               IN  IF left THEN all
                                   ELSE SelectSeq(all, LAMBDA r : r["value.y"] # Null)],
                     <<>>)
    /\ UNCHANGED <<tab, heap>>

InitPlanned ==
    /\ tab = [t \in TableIds |-> NoTable]
    /\ heap = [a \in Addr |-> <<>>]
    /\ \E T \in WideTables \union ProbeTables :
            last = Last("new", 0, NoQuery, FALSE, T, <<>>)

NextPlanned ==
    \/ \E ids \in IdLists : \E measures \in MeasureLists : Melt(ids, measures)
    \/ \E ids \in IdLists : Dcast(ids)
    \/ \E R \in RightTables : \E on \in OnLists : \E left, nomatch \in BOOLEAN :
            Join(R, on, left, nomatch)
    \/ \E R \in KeyTables : \E left \in BOOLEAN : RollingJoin(last.ret, R, left)

SpecPlanned == InitPlanned /\ [][NextPlanned]_vars

\* the identifier tuples of T are unique
UniqueIds(T, ids) ==
    \A i, j \in 1..Len(T.rows) :
        Project(T.rows[i], ids) = Project(T.rows[j], ids) => i = j

\* melt's output has (rows of T) x (measure columns) rows, and dcast of it
\* over the same identifiers gives back the rows of T cut down to the
\* identifier and measure columns
RoundTrip(measureLists) ==
    /\ \A ids \in IdLists : \A measures \in measureLists :
            Melt(ids, measures) =>
                Len(last'.ret.rows) = Len(last.ret.rows) * Len(measures)
    /\ \A ids \in IdLists :
            (/\ Dcast(ids)
             /\ ids = last.q.ids
             /\ last.q.measures \in measureLists
             /\ UniqueIds(last.target, ids)) =>
                /\ ~ last'.threw
                /\ last'.ret.rows =
                        [k \in 1..Len(last.target.rows) |->
                            Project(last.target.rows[k], ids \o last.q.measures)]

\* C22 as stated: for every table T whose identifier tuples are unique,
\* dcast(melt(T, ids, measures), ids, "variable", "value") has the rows and
\* values of T restricted to ids and measures, and melt's output has
\* (rows of T) x (number of measure columns) rows.
C22_RoundTripAnyMeasures == [][RoundTrip(MeasureLists)]_vars

\* C22 amended: the same for every call with at least one measure column.
C22_RoundTripSomeMeasure == [][RoundTrip(MeasureLists \ {<<>>})]_vars

C22_Witness ==
    /\ last.op = "dcast"
    /\ ~ last.threw
    /\ last.q.ids = <<"id">>
    /\ Len(last.target.rows) = 4
    /\ last.ret.rows =
        <<[c \in {"id", "x1", "x2"} |-> IF c = "id" THEN Num(2) ELSE IF c = "x1" THEN Num(1) ELSE Num(4)],
          [c \in {"id", "x1", "x2"} |-> IF c = "id" THEN Num(1) ELSE IF c = "x1" THEN Num(2) ELSE Num(4)]>>

\* the (left row, right row) pairs with equal keys
KeyPairs(T, R, on) ==
    {p \in (1..Len(T.rows)) \X (1..Len(R.rows)) :
        Project(T.rows[p[1]], on) = Project(R.rows[p[2]], on)}

\* the inner join has one output row per pair with equal keys, each the
\* combination of such a pair
InnerRowPerPair ==
    \A R \in RightTables : \A on \in OnLists : \A nomatch \in BOOLEAN :
        Join(R, on, FALSE, nomatch) =>
            /\ Len(last'.ret.rows) = Cardinality(KeyPairs(last.ret, R, on))
            /\ \A k \in 1..Len(last'.ret.rows) :
                    \E p \in KeyPairs(last.ret, R, on) :
                        last'.ret.rows[k] = Paired(last.ret.rows[p[1]], R, on, p[2] - 1)

\* the left join, under the no-match flags listed, has at least as many
\* output rows as the left table
LeftKeepsRows(flags) ==
    \A R \in RightTables : \A on \in OnLists : \A nomatch \in flags :
        Join(R, on, TRUE, nomatch) =>
            Len(last'.ret.rows) >= Len(last.ret.rows)

\* C23 as stated: for every pair of tables and key columns the equi inner
\* join has exactly one output row per (left row, right row) pair with
\* equal keys, and the left join has at least as many output rows as the
\* left table.
C23_JoinRowCounts == [][InnerRowPerPair /\ LeftKeepsRows(BOOLEAN)]_vars

\* C23 amended: the lower bound holds for the left join called without the
\* no-match suppression flag.
C23_JoinRowCountsUnsuppressed == [][InnerRowPerPair /\ LeftKeepsRows({FALSE})]_vars

C23_Witness ==
    /\ last.op = "join"
    /\ last.q.left /\ ~ last.q.nomatch
    /\ last.q.on = <<"id">>
    /\ Len(last.target.rows) = 2
    /\ Len(last.q.right.rows) = 2
    /\ Len(last.ret.rows) = 3
    /\ \E k \in 1..3 : last.ret.rows[k]["x2.y"] = Null

\* the value the rolling join is expected to pair with a probe: that of a
\* right row with the greatest key less than or equal to the probe, null
\* when the probe precedes every right key
RolledValue(p, R) ==
    LET below == {R.rows[j]["key"].n : j \in 1..Len(R.rows)} \cap 0..p["key"].n
    IN  IF below = {} THEN Null
        ELSE Num(10 * (CHOOSE n \in below : \A m \in below : m <= n))

\* the rows expected of the rolling join in left mode
RolledRows(P, R) ==
    [k \in 1..Len(P.rows) |->
        [c \in {"key", "value.y"} |->
            IF c = "key" THEN P.rows[k]["key"] ELSE RolledValue(P.rows[k], R)]]

KeysOf(T) == [k \in 1..Len(T.rows) |-> T.rows[k]["key"].n]

\* C24: the rolling join with at-or-before semantics matches each probe key
\* to the right row with the greatest key less than or equal to it, and to
\* nothing when the probe precedes every right key; against keys [1,2,3]
\* probe 0 has no match, 1.5 matches 1 and 5 matches 3 (keys in halves).
C24_RollingAtOrBefore ==
    [][last'.op = "rollingJoin" =>
        /\ last'.q.left =>
                /\ last'.ret.rows = RolledRows(last'.target, last'.q.right)
                /\ (KeysOf(last'.target) = <<0, 3, 10>>
                        /\ KeysOf(last'.q.right) = <<2, 4, 6>>)
                    => [k \in 1..3 |-> last'.ret.rows[k]["value.y"]]
                            = <<Null, Num(20), Num(60)>>
        /\ ~ last'.q.left =>
                last'.ret.rows =
                    SelectSeq(RolledRows(last'.target, last'.q.right),
                              LAMBDA r : r["value.y"] # Null)]_vars

C24_Witness ==
    /\ last.op = "rollingJoin"
    /\ last.q.left
    /\ KeysOf(last.target) = <<0, 3, 10>>
    /\ KeysOf(last.q.right) = <<2, 4, 6>>
    /\ [k \in 1..Len(last.ret.rows) |-> last.ret.rows[k]["value.y"]]
            = <<Null, Num(20), Num(60)>>

-----------------------------------------------------------------------------
(* base/seq.ts                                                              *)

RECURSIVE BitLen(_)
BitLen(n) == IF n = 0 THEN 0 ELSE 1 + BitLen(n \div 2)

\* the number nearest to the integer x, ties to the even significand: the
\* result of every arithmetic operation on numbers
RoundDouble(x) ==
    LET m == IF x < 0 THEN -x ELSE x
        u == IF BitLen(m) <= MantissaBits THEN 1 ELSE 2 ^ (BitLen(m) - MantissaBits)
        q == m \div u
        r == m % u
        n == IF 2 * r < u \/ (2 * r = u /\ q % 2 = 0) THEN q * u ELSE (q + 1) * u
    IN  IF x < 0 THEN -n ELSE n

\* the integers handed to seq as from and to, each a number
SeqEnds == {x \in {0, 1, 5, 10, 2 ^ MantissaBits, 2 ^ MantissaBits + 2} :
                RoundDouble(x) = x}

SeqBys == {-2, -1, 0, 1, 2}

\* the state of a call of seq: where it is, the loop variable and the array
SeqState(pc, current, result) ==
    [pc |-> pc, current |-> current, result |-> result]

SeqRunning == last.op = "seq" /\ last.ret.pc = "loop"

\* seq(from, to, by) without length_out and along_with, up to the loop:
\* by defaults to 1 or -1 towards to
SeqCall(from, to, hasBy, by) ==
    /\ ~ SeqRunning
    /\ last' = Last("seq", 0,
                     [from |-> from, to |-> to,
                      by |-> IF hasBy THEN by ELSE IF to >= from THEN 1 ELSE -1],
                     FALSE, SeqState("loop", from, <<>>), <<>>)
    /\ UNCHANGED <<tab, heap>>

\* while ((by > 0 && current <= to) || (by < 0 && current >= to))
\*     { result.push(current); current += by; }
SeqLoop ==
    /\ SeqRunning
    /\ IF \/ last.q.by > 0 /\ last.ret.current <= last.q.to
          \/ last.q.by < 0 /\ last.ret.current >= last.q.to
       THEN /\ Len(last.ret.result) < MaxSeqLen
            /\ last' = [last EXCEPT !.ret =
                    SeqState("loop", RoundDouble(last.ret.current + last.q.by),
                             Append(last.ret.result, last.ret.current))]
       ELSE last' = [last EXCEPT !.ret.pc = "done"]
    /\ UNCHANGED <<tab, heap>>

\* a / b for the operands that occur: 0 / 0 is NaN
Quotient(a, b) == IF b = 0 THEN NaN ELSE Num(a \div b)

\* from + i * by: NaN when by is NaN
Nth(from, i, by) == IF by = NaN THEN NaN ELSE Num(from + i * by.n)

\* seq(1, 1, undefined, undefined, along_with) for an array of length n:
\* length_out = along_with.length, to = from + length_out - 1,
\* by = (to - from) / (length_out - 1), result[i] = from + i * by
SeqAlongWith(n) ==
    /\ ~ SeqRunning
    /\ last' = Last("seqAlongWith", 0, [from |-> 1, to |-> 1 + n - 1, by |-> 0],
                     FALSE,
                     SeqState("done", 0,
                        [i \in 1..n |->
                            Nth(1, i - 1, Quotient((1 + n - 1) - 1, n - 1))]),
                     <<>>)
    /\ UNCHANGED <<tab, heap>>

\* Array.from({ length: along_with.length }, (_, i) => i + 1)
seq_along(n) == [i \in 1..n |-> Num((i - 1) + 1)]

\* Array.from({ length: length_out }, (_, i) => i + 1) for length_out >= 0
seq_len(n) == [i \in 1..n |-> Num((i - 1) + 1)]

NextSeq ==
    \/ \E from, to \in SeqEnds : \E hasBy \in BOOLEAN : \E by \in SeqBys :
            SeqCall(from, to, hasBy, by)
    \/ SeqLoop
    \/ \E n \in 0..MaxAlong : SeqAlongWith(n)

SpecSeq == InitNew /\ [][NextSeq]_vars

\* from, from + by, from + 2 * by, ... up to the last value not past to
SeqExpected(q) ==
    IF q.by > 0 /\ q.from <= q.to
    THEN [i \in 1..((q.to - q.from) \div q.by + 1) |-> q.from + (i - 1) * q.by]
    ELSE [i \in 1..((q.from - q.to) \div (-q.by) + 1) |-> q.from + (i - 1) * q.by]

\* C25: for all finite integers from, to and by, seq(from, to, by) without
\* length_out terminates: every iteration of its loop moves the loop
\* variable in the direction of by, so the loop is left after finitely many
\* iterations; when by points from 'from' toward 'to' it returns from,
\* from + by, from + 2 * by, ... up to the last value that does not pass
\* 'to', and when by is 0 or points away from 'to' the loop does not run.
C25_SeqTerminates ==
    [][(SeqRunning /\ last'.op = "seq") =>
        /\ last'.ret.pc = "loop" =>
                /\ last.q.by > 0 => last'.ret.current > last.ret.current
                /\ last.q.by < 0 => last'.ret.current < last.ret.current
        /\ last'.ret.pc = "done" =>
                IF \/ last.q.by > 0 /\ last.q.from <= last.q.to
                   \/ last.q.by < 0 /\ last.q.from >= last.q.to
                THEN last'.ret.result = SeqExpected(last.q)
                ELSE last'.ret.result = <<>>]_vars

\* C26: for every array x, also of length 0 and 1, seq called with
\* along_with = x and the default from returns 1, 2, ..., length(x), the
\* sequence seq_along(x) and seq_len(length(x)) return.
C26_AlongWithCountsFromOne ==
    last.op = "seqAlongWith" =>
        /\ last.ret.result = [i \in 1..last.q.to |-> Num(i)]
        /\ last.ret.result = seq_along(last.q.to)
        /\ last.ret.result = seq_len(last.q.to)

-----------------------------------------------------------------------------
(* Group keys                                                               *)

\* C27: two filtered rows fall into the same group if and only if their
\* by-key tuples are equal value by value: distinct tuples never share a
\* group, values that differ only in type (25 and "25") included.
C27_GroupsByTupleEquality ==
    AnsweredGrouped =>
        \E groups \in {GroupsOfLast} : \E idx \in {PassingSeq(last.q)} :
            \A a, b \in 1..Len(idx) :
                (\E g \in 1..Len(groups) :
                    {a - 1, b - 1} \subseteq Range(groups[g]))
                    <=> ByTuple(last.q, idx[a]) = ByTuple(last.q, idx[b])

-----------------------------------------------------------------------------
(* fread-fwrite: the CSV reader and writer                                  *)
(* A string is the sequence of its characters.  The separator is ',' and   *)
(* the quote is '"', the defaults of both modules.                          *)

\* s.split(sep) for a separator of one character
RECURSIVE SplitOn(_, _)
SplitOn(s, sep) ==
    IF \A i \in 1..Len(s) : s[i] # sep THEN <<s>>
    ELSE LET i == CHOOSE j \in 1..Len(s) :
                    s[j] = sep /\ \A k \in 1..(j - 1) : s[k] # sep
         IN  <<SubSeq(s, 1, i - 1)>> \o SplitOn(SubSeq(s, i + 1, Len(s)), sep)

\* s.trim()
TrimStr(s) ==
    LET inked == {i \in 1..Len(s) : s[i] # " "}
    IN  IF inked = {} THEN <<>>
        ELSE SubSeq(s, CHOOSE i \in inked : \A j \in inked : i <= j,
                       CHOOSE i \in inked : \A j \in inked : j <= i)

\* line.split(separator).map((v) =>
\*     v.trim().replace(new RegExp(`^${quote}|${quote}$`, 'g'), ''))
Values(line) ==
    LET fields == SplitOn(line, ",")
        unquoted(v) ==
            LET a == IF v # <<>> /\ v[1] = "\"" THEN Tail(v) ELSE v
            IN  IF a # <<>> /\ a[Len(a)] = "\"" THEN SubSeq(a, 1, Len(a) - 1) ELSE a
    IN  [k \in 1..Len(fields) |-> unquoted(TrimStr(fields[k]))]

\* what a call returns: a table, or the error it throws
TableOf(columns, data) == [kind |-> "table", columns |-> columns, data |-> data]

Failure(kind) == [kind |-> kind, columns |-> <<>>, data |-> <<>>]

\* headerRow.indexOf(col), from 0, -1 when absent
IndexOf(row, col) ==
    IF \E i \in 1..Len(row) : row[i] = col
    THEN (CHOOSE i \in 1..Len(row) : row[i] = col /\ \A k \in 1..(i - 1) : row[k] # col) - 1
    ELSE -1

\* values[i] where undefined is kept apart from every string
Field(values, i) ==
    IF i >= 0 /\ i < Len(values) THEN [t |-> "string", v |-> values[i + 1]]
    ELSE [t |-> "undefined", v |-> <<>>]

\* inferType(value) and coerceValue(value, type) for digits, letters and
\* spaces: a text that Number() reads gives a number, any other is kept
InferType(f) ==
    IF f.t = "string" /\ f.v # <<>>
        /\ \A c \in Range(TrimStr(f.v)) : c \in {"0", "1", "2", "3"}
    THEN "number" ELSE "string"

CoerceValue(v, type) ==
    IF type # "number" THEN [t |-> "string", v |-> v]
    ELSE IF TrimStr(v) = <<>> THEN [t |-> "number", v |-> <<"0">>]
    ELSE IF \A c \in Range(TrimStr(v)) : c \in {"0", "1", "2", "3"}
         THEN [t |-> "number", v |-> TrimStr(v)]
         ELSE [t |-> "number", v |-> <<"N", "a", "N">>]

\* new DataTable(data) for an object of arrays: Object.keys(data) are the
\* columns, reading the length of the first column fails when there is none
NewTable(columns, data) ==
    IF columns = <<>> THEN Failure("TypeError") ELSE TableOf(columns, data)

\* processLines of the type-inferring reader: header on, no colClasses.
\* The types come from the first data row, and each column takes
\* values[index] || '' where index is its position among the columns read.
InferringProcessLines(lines, hasSelect, select) ==
    IF lines = <<>> THEN Failure("Empty file or all rows skipped")
    ELSE IF Len(lines) = 1 THEN Failure("TypeError")
    ELSE LET headerRow == SplitOn(lines[1], ",")
             columns == IF hasSelect THEN select ELSE headerRow
             firstDataRow == SplitOn(lines[2], ",")
             type(index) == InferType(Field(firstDataRow, index))
             cell(k, index) ==
                LET f == Field(Values(lines[k + 1]), index)
                IN  CoerceValue(IF f.t = "undefined" THEN <<>> ELSE f.v, type(index))
         IN  NewTable(columns,
                [c \in Range(columns) |->
                    [k \in 1..(Len(lines) - 1) |-> cell(k, IndexOf(columns, c))]])

\* processLines of the scratch reader, no colClasses.  A selected column
\* that the header lacks is an error on the first data line, and each
\* column takes values[headerRow.indexOf(col)].
ProcessLines(lines, header, hasSelect, select) ==
    IF lines = <<>> THEN Failure("Empty file or all rows skipped")
    ELSE LET headerRow == IF header THEN SplitOn(lines[1], ",") ELSE <<>>
             rest == IF header THEN Tail(lines) ELSE lines
             columns == IF hasSelect THEN select ELSE headerRow
         IN  IF rest # <<>> /\ hasSelect
                    /\ \E c \in Range(select) : IndexOf(headerRow, c) < 0
             THEN Failure("Selected column not found in CSV")
             ELSE NewTable(columns,
                    [c \in Range(columns) |->
                        [k \in 1..Len(rest) |->
                            Field(Values(rest[k]), IndexOf(headerRow, c))]])

\* the lines that are not blank
Inked(lines) == SelectSeq(lines, LAMBDA line : TrimStr(line) # <<>>)

\* freadSync: content.split('\n').slice(skipRows) without the blank lines;
\* lines[0].split fails when no line is left
FreadSync(content, skipRows, header) ==
    LET all == SplitOn(content, "\n")
        lines == Inked(SubSeq(all, skipRows + 1, Len(all)))
    IN  IF lines = <<>> THEN Failure("TypeError")
        ELSE IF Len(SplitOn(lines[1], ",")) # Len(SplitOn(lines[Len(lines)], ","))
             THEN Failure("Inconsistent number of columns in the data")
             ELSE ProcessLines(lines, header, FALSE, <<>>)

\* fread: readline gives the lines without a last empty piece; the lines
\* from skipRows on that are not blank are kept, firstLineColumns is set
\* by the line at skipRows when it is kept and lastLineColumns by the last
\* line kept, both start at 0
Fread(content, skipRows, header) ==
    LET all == SplitOn(content, "\n")
        emitted == IF all[Len(all)] = <<>> THEN SubSeq(all, 1, Len(all) - 1) ELSE all
        lines == Inked(SubSeq(emitted, skipRows + 1, Len(emitted)))
        firstLineColumns ==
            IF Len(emitted) > skipRows /\ TrimStr(emitted[skipRows + 1]) # <<>>
            THEN Len(SplitOn(emitted[skipRows + 1], ",")) ELSE 0
        lastLineColumns ==
            IF lines = <<>> THEN 0 ELSE Len(SplitOn(lines[Len(lines)], ","))
    IN  IF firstLineColumns # lastLineColumns
        THEN Failure("Inconsistent number of columns in the data")
        ELSE ProcessLines(lines, header, FALSE, <<>>)

\* fields.join(separator)
RECURSIVE JoinWith(_, _)
JoinWith(fields, sep) ==
    IF fields = <<>> THEN <<>>
    ELSE IF Len(fields) = 1 THEN fields[1]
    ELSE fields[1] \o <<sep>> \o JoinWith(Tail(fields), sep)

\* escapeValue: a value holding the quote is wrapped in quotes with every
\* quote doubled, any other value is written as it is
RECURSIVE EscapeValue(_)
EscapeValue(v) ==
    IF \A i \in 1..Len(v) : v[i] # "\"" THEN v
    ELSE LET RECURSIVE doubled(_)
             doubled(w) ==
                IF w = <<>> THEN <<>>
                ELSE (IF w[1] = "\"" THEN <<"\"", "\"">> ELSE <<w[1]>>) \o doubled(Tail(w))
         IN  <<"\"">> \o doubled(v) \o <<"\"">>

\* dataTableRowGenerator with the header on, all rows written by fwriteSync:
\* the escaped column names, then the escaped cells of each row, every line
\* joined by the separator and ended by a newline
FwriteSync(T) ==
    LET line(fields) ==
            JoinWith([k \in 1..Len(fields) |-> EscapeValue(fields[k])], ",") \o <<"\n">>
        RECURSIVE rows(_)
        rows(i) ==
            IF i >= Len(T.data[T.columns[1]]) THEN <<>>
            ELSE line([k \in 1..Len(T.columns) |-> T.data[T.columns[k]][i + 1]])
                    \o rows(i + 1)
    IN  line(T.columns) \o rows(0)

\* the lines of the files read: header lines, data lines, a blank line
HeaderLines == {<<"a", ",", "b">>, <<"b", ",", "a">>}

DataLines == {<<"1", ",", "x">>, <<"y", ",", "2">>, <<" ", "3", ",", "\"", "x", "\"">>}

CsvSelects == {<< <<"a">> >>, << <<"b">> >>, << <<"b">>, <<"a">> >>}

\* the contents of the files read by both readers: up to MaxLines lines,
\* blank lines among them, with or without a newline at the end
FileContents ==
    {JoinWith(lines, "\n") \o end :
        lines \in UNION {[1..n -> HeaderLines \union {<<"1", ",", "x">>, <<>>, <<"1">>}] :
                            n \in 0..MaxLines},
        end \in {<<>>, <<"\n">>}}

\* the tables of string cells written: cells with the separator, the quote
\* and a leading space among them
CsvCells == {<<"x">>, <<"y">>, <<"x", ",", "y">>, <<"\"", "x">>, <<" ", "x">>}

CsvTables ==
    {[columns |-> << <<"a">>, <<"b">> >>,
      data |-> [c \in {<<"a">>, <<"b">>} |-> IF c = <<"a">> THEN a ELSE b]] :
        a \in UNION {[1..n -> CsvCells] : n \in 1..MaxRows},
        b \in {<<(<<"x">>)>>, <<(<<"x">>), (<<"y">>)>>}}

\* processLines(lines, { select }) of the type-inferring reader
ProcessSelected(lines, select) ==
    /\ last.op = "none"
    /\ last' = Last("processLines", 0, [lines |-> lines, select |-> select],
                     InferringProcessLines(lines, TRUE, select).kind # "table",
                     InferringProcessLines(lines, TRUE, select), <<>>)
    /\ UNCHANGED <<tab, heap>>

\* fread and freadSync of the same file with the same options
ReadBoth(content, skipRows, header) ==
    /\ last.op = "none"
    /\ last' = Last("fread", 0,
                     [content |-> content, skipRows |-> skipRows, header |-> header],
                     FALSE,
                     [sync |-> FreadSync(content, skipRows, header),
                      async |-> Fread(content, skipRows, header)],
                     <<>>)
    /\ UNCHANGED <<tab, heap>>

\* fwriteSync(T, file, { header: true }): ret is the content of the file
Fwrite(T) ==
    /\ last.op = "none"
    /\ last' = Last("fwriteSync", T, NoQuery, FALSE, FwriteSync(T), <<>>)
    /\ UNCHANGED <<tab, heap>>

\* freadSync of the file just written
ReadBack ==
    /\ last.op = "fwriteSync"
    /\ last' = Last("freadSync", last.target, [content |-> last.ret],
                     FreadSync(last.ret, 0, TRUE).kind # "table",
                     FreadSync(last.ret, 0, TRUE), <<>>)
    /\ UNCHANGED <<tab, heap>>

NextCsv ==
    \/ \E content \in FileContents : \E skipRows \in {0, 1} : \E header \in BOOLEAN :
            ReadBoth(content, skipRows, header)
    \/ \E T \in {U \in CsvTables : Len(U.data[<<"a">>]) = Len(U.data[<<"b">>])} :
            Fwrite(T)
    \/ ReadBack
    \/ \E h \in HeaderLines : \E n \in 1..MaxRows : \E d \in [1..n -> DataLines] :
        \E select \in CsvSelects : ProcessSelected(<<h>> \o d, select)

SpecCsv == InitNew /\ [][NextCsv]_vars

\* C28: when the type-inferring processLines is given a select list, each
\* selected column of the resulting table holds, for every data line, the
\* field found under the header of the same name, whatever the position of
\* that column in the file and in the select list.
C28_SelectedColumnByHeaderName ==
    (last.op = "processLines" /\ ~ last.threw) =>
        \A c \in Range(last.q.select) : \A k \in 1..(Len(last.q.lines) - 1) :
            LET at == IndexOf(SplitOn(last.q.lines[1], ","), c)
            IN  last.ret.data[c][k] =
                    CoerceValue(Field(Values(last.q.lines[k + 1]), at).v,
                                InferType(Field(SplitOn(last.q.lines[2], ","), at)))

\* C29: for every file content and every options value (skipRows, header),
\* fread and freadSync give the same outcome: both return tables with the
\* same columns and rows, or both fail with the same error; files with
\* blank lines at or after the skipRows position and files with no
\* non-blank line included.
C29_ReadersAgree ==
    last.op = "fread" => last.ret.sync = last.ret.async

\* C30: writing a table of string cells with fwriteSync (header on) and
\* reading the file back with freadSync returns a table with the same
\* column names, the same number of rows and the same cell values, cells
\* that contain the separator, the quote or surrounding spaces included;
\* every written data line splits into as many fields as the table has
\* columns.
C30_WriteReadRoundTrip ==
    last.op = "freadSync" =>
        /\ last.ret.kind = "table"
        /\ last.ret.columns = last.target.columns
        /\ \A c \in Range(last.target.columns) :
                last.ret.data[c] =
                    [k \in 1..Len(last.target.data[c]) |->
                        [t |-> "string", v |-> last.target.data[c][k]]]
        /\ \A line \in Range(Inked(SplitOn(last.q.content, "\n"))) :
                Len(SplitOn(line, ",")) = Len(last.target.columns)

====
